---- MODULE Spec2Model ----
(***************************************************************************)
(* Crossword constraint-satisfaction solver (crossword/generate.py):      *)
(* node consistency, AC-3 arc consistency, and heuristic backtracking     *)
(* search over a Domain Store.                                             *)
(*                                                                         *)
(* Python sets and dicts made from sets have no specified iteration       *)
(* order; every place the code iterates one is modelled by a chosen       *)
(* order (varOrder for self.domains, an enumeration for a word set or a   *)
(* neighbor set).                                                          *)
(***************************************************************************)
EXTENDS Integers, Sequences, FiniteSets, TLC

\* Largest word list (crossword.words) explored.
MaxWords == 3
\* Largest number of ac3() invocations by one client (solve() makes one).
MaxAc3Calls == 2

Letters == {"a", "b"}

\* The candidate strings word lists are drawn from: the four two-letter
\* words over Letters and four of the three-letter ones.
Dictionary ==
    {<<a, b>> : a \in Letters, b \in Letters}
        \cup {<<"a", "a", "a">>, <<"a", "a", "b">>, <<"b", "a", "b">>, <<"b", "b", "b">>}

ACROSS == "across"
DOWN == "down"

\* A slot variable: start row i, start column j, direction, length.
Variable(i, j, direction, length) ==
    [i |-> i, j |-> j, direction |-> direction, length |-> length]

\* The puzzles explored, each the set of slot variables of one grid:
\*   one slot; two crossing slots of equal length; an across slot crossed
\*   at its first cell by a short down slot and at its last cell by the
\*   middle of a long one; two parallel slots that share no cell.
Grids ==
    { {Variable(0, 0, ACROSS, 2)},
      {Variable(0, 0, ACROSS, 2), Variable(0, 1, DOWN, 2)},
      {Variable(1, 0, ACROSS, 3), Variable(1, 0, DOWN, 2), Variable(0, 2, DOWN, 3)},
      {Variable(0, 0, ACROSS, 2), Variable(2, 0, ACROSS, 2)} }

VARIABLES
    variables,   \* crossword.variables: the slot variables of the puzzle
    words,       \* crossword.words: the word list
    varOrder,    \* iteration order of the dict self.domains
    domains,     \* self.domains: variable -> set of candidate words
    pc,          \* position of the caller / of the running method
    queue,       \* ac3's worklist of arcs <<x, y>>
    calls,       \* number of ac3() invocations so far
    rets,        \* return values of the finished ac3() invocations, in order
    dom0,        \* self.domains as it was when the running ac3() was entered
    assignment,  \* backtrack's dict, as its (variable, word) items in insertion order
    stack,       \* backtrack's call frames, innermost last
    picked,      \* the latest select_unassigned_variable / order_domain_values call
    result       \* what the finished call returned ("pending" before): "None" or
                 \* "assignment" for backtrack and solve(); "True", "False" or
                 \* "IndexError" for consistent() called on its own

vars == <<variables, words, varOrder, domains, pc, queue, calls, rets, dom0,
          assignment, stack, picked, result>>

Range(s) == {s[k] : k \in 1..Len(s)}

\* The orders in which a finite set can be enumerated.
Perms(S) ==
    {s \in [1..Cardinality(S) -> S] : \A a, b \in 1..Cardinality(S) : s[a] = s[b] => a = b}

(***************************************************************************)
(* Puzzle Model (external collaborator).                                   *)
(***************************************************************************)

\* The grid cells a slot variable covers, in word order.
Cells(v) ==
    [k \in 1..v.length |->
        <<v.i + (IF v.direction = DOWN THEN k - 1 ELSE 0),
          v.j + (IF v.direction = ACROSS THEN k - 1 ELSE 0)>>]

None == <<>>

\* Position (0-based) of cell c in the cell sequence cs.
IndexOf(cs, c) == (CHOOSE k \in 1..Len(cs) : cs[k] = c) - 1

\* The overlap of one pair: None, or the pair (index in x, index in y) of the
\* shared cell.
Overlap(x, y) ==
    LET shared == Range(Cells(x)) \cap Range(Cells(y))
    IN  IF shared = {}
        THEN None
        ELSE LET c == CHOOSE c \in shared : TRUE
             IN  <<IndexOf(Cells(x), c), IndexOf(Cells(y), c)>>

\* crossword.overlaps: computed once from the geometry, for every pair of
\* distinct variables of a puzzle.
OverlapTable ==
    [pair \in {p \in (UNION Grids) \X (UNION Grids) : p[1] # p[2]} |->
        Overlap(pair[1], pair[2])]

\* crossword.overlaps[x, y]
overlaps(x, y) == OverlapTable[<<x, y>>]

\* crossword.neighbors(var): the variables with a non-null overlap with var.
neighbors(var) ==
    {v \in variables : v # var /\ overlaps(v, var) # None}

\* Letter k (0-based, as in Python) of a word.
At(word, k) == word[k + 1]

(***************************************************************************)
(* Consistency Engine.                                                     *)
(***************************************************************************)

\* enforce_node_consistency: words of the wrong length leave every domain.
enforce_node_consistency_longer(doms) ==
    [var \in DOMAIN doms |-> {word \in doms[var] : ~(Len(word) < var.length)}]

enforce_node_consistency(doms) ==
    [var \in DOMAIN doms |-> {word \in doms[var] : ~(Len(word) # var.length)}]

\* revise(x, y): the domains afterwards and the returned flag.
revise_all(doms, x, y) ==
    LET overlap == overlaps(x, y)
        kept == IF overlap = None
                THEN doms[x]
                ELSE {Xword \in doms[x] :
                        \A Yword \in doms[y] :
                            At(Xword, overlap[1]) = At(Yword, overlap[2])}
    IN  [domains |-> [doms EXCEPT ![x] = kept], revised |-> kept # doms[x]]

revise_silent(doms, x, y) ==
    LET overlap == overlaps(x, y)
        kept == IF overlap = None
                THEN doms[x]
                ELSE {Xword \in doms[x] :
                        \E Yword \in doms[y] :
                            At(Xword, overlap[1]) = At(Yword, overlap[2])}
    IN  [domains |-> [doms EXCEPT ![x] = kept], revised |-> FALSE]

revise_flagged(doms, x, y) ==
    LET overlap == overlaps(x, y)
        kept == IF overlap = None
                THEN doms[x]
                ELSE {Xword \in doms[x] :
                        \E Yword \in doms[y] :
                            At(Xword, overlap[1]) = At(Yword, overlap[2])}
    IN  [domains |-> [doms EXCEPT ![x] = kept], revised |-> overlap # None]

revise(doms, x, y) ==
    LET overlap == overlaps(x, y)
        kept == IF overlap = None
                THEN doms[x]
                ELSE {Xword \in doms[x] :
                        \E Yword \in doms[y] :
                            At(Xword, overlap[1]) = At(Yword, overlap[2])}
    IN  [domains |-> [doms EXCEPT ![x] = kept], revised |-> kept # doms[x]]

\* ac3's default worklist: every ordered pair of distinct variables, in the
\* nested iteration order of self.domains.
RECURSIVE Flatten(_)
Flatten(ss) == IF ss = <<>> THEN <<>> ELSE Head(ss) \o Flatten(Tail(ss))

InitialArcs_oneway(order) ==
    Flatten([a \in 1..Len(order) |->
        Flatten([b \in 1..Len(order) |->
            IF a < b THEN <<<<order[a], order[b]>>>> ELSE <<>>])])

InitialArcs(order) ==
    Flatten([a \in 1..Len(order) |->
        Flatten([b \in 1..Len(order) |->
            IF order[a] # order[b] THEN <<<<order[a], order[b]>>>> ELSE <<>>])])

\* The arcs appended after a revision of x against y: (z, x) for z in
\* neighbors(x) - {y}.
Requeue_none(x, y) == {}

Requeue(x, y) == neighbors(x) \ {y}

(***************************************************************************)
(* Search Engine.                                                          *)
(***************************************************************************)

\* The dict `assignment` is the sequence of its items <<variable, word>>.
Keys(a) == {a[k][1] : k \in 1..Len(a)}

\* assignment[var]
Value(a, var) == a[CHOOSE k \in 1..Len(a) : a[k][1] = var][2]

\* assignment.pop(var)
Pop_kept(a, var) == a

Pop(a, var) == SelectSeq(a, LAMBDA item : item[1] # var)

\* assignment_complete: every variable of self.domains is a key.
assignment_complete_reversed(a) ==
    \A var \in Keys(a) : var \in Range(varOrder)

assignment_complete(a) ==
    \A k \in 1..Len(varOrder) : varOrder[k] \in Keys(a)

\* For each puzzle, the orders in which consistent() can meet the neighbors
\* of each variable (crossword.neighbors returns a set).
NeighborOrdersOf ==
    [V \in Grids |->
        LET near(var) == {v \in V : v # var /\ overlaps(v, var) # None}
        IN  {ord \in [V -> UNION {Perms(near(var)) : var \in V}] :
                \A var \in V : /\ Range(ord[var]) = near(var)
                               /\ Len(ord[var]) = Cardinality(near(var))}]

NeighborOrders == NeighborOrdersOf[variables]

\* The neighbor loop of consistent() (lines 199-206) for the item (var, val)
\* over the neighbors ys still to meet: "ok" when it runs through, "False"
\* at a letter conflict, "IndexError" when assignment[y] is too short to
\* have letter j.
RECURSIVE neighborLoop(_, _, _, _)
neighborLoop(a, var, val, ys) ==
    IF ys = <<>>
    THEN "ok"
    ELSE LET y == Head(ys)
         IN  IF y \notin Keys(a) \/ overlaps(var, y) = None
             THEN neighborLoop(a, var, val, Tail(ys))
             ELSE IF overlaps(var, y)[2] >= Len(Value(a, y))
             THEN "IndexError"
             ELSE IF At(val, overlaps(var, y)[1]) # At(Value(a, y), overlaps(var, y)[2])
             THEN "False"
             ELSE neighborLoop(a, var, val, Tail(ys))

\* The loop of consistent() from item k on, distinct_values being the words
\* of the items before k, the neighbors met in the orders ord: "True",
\* "False", or "IndexError" when the call raises.
RECURSIVE consistentFrom(_, _, _, _)
consistentFrom(a, k, distinct_values, ord) ==
    IF k > Len(a)
    THEN "True"
    ELSE LET var == a[k][1]
             val == a[k][2]
         IN  IF Len(val) # var.length
             THEN "False"
             ELSE LET met == neighborLoop(a, var, val, ord[var])
                  IN  IF met # "ok"
                      THEN met
                      ELSE IF val \in Range(distinct_values)
                      THEN "False"
                      ELSE consistentFrom(a, k + 1, Append(distinct_values, val), ord)

\* What a call consistent(a) can do.
consistent_outcomes(a) == {consistentFrom(a, 1, <<>>, ord) : ord \in NeighborOrders}

RECURSIVE consistentFrom_reuse(_, _, _)
consistentFrom_reuse(a, k, distinct_values) ==
    IF k > Len(a)
    THEN TRUE
    ELSE LET var == a[k][1]
             val == a[k][2]
         IN  IF Len(val) # var.length
             THEN FALSE
             ELSE IF \E y \in neighbors(var) :
                        /\ y \in Keys(a)
                        /\ overlaps(var, y) # None
                        /\ At(val, overlaps(var, y)[1]) # At(Value(a, y), overlaps(var, y)[2])
             THEN FALSE
             ELSE consistentFrom_reuse(a, k + 1, Append(distinct_values, val))

consistent_reuse(a) == consistentFrom_reuse(a, 1, <<>>)

\* consistent(a) as backtrack reads it: the call returned True. (During the
\* search every word has its slot's length, and the call never raises.)
consistent(a) == consistent_outcomes(a) = {"True"}

\* Lexicographic "less than" on sort keys (tuples of integers of one length).
RECURSIVE KeyLess(_, _)
KeyLess(k1, k2) ==
    IF k1 = <<>> \/ k2 = <<>>
    THEN FALSE
    ELSE \/ Head(k1) < Head(k2)
         \/ Head(k1) = Head(k2) /\ KeyLess(Tail(k1), Tail(k2))

\* Python's sorted(entries, key=...): a stable ascending sort of entries
\* [item, key].
RECURSIVE sorted(_)
sorted(entries) ==
    IF entries = <<>>
    THEN <<>>
    ELSE LET n == Len(entries)
             e == entries[n]
             front == sorted(SubSeq(entries, 1, n - 1))
             p == Cardinality({k \in 1..(n - 1) : ~KeyLess(e.key, front[k].key)})
         IN  SubSeq(front, 1, p) \o <<e>> \o SubSeq(front, p + 1, n - 1)

\* select_unassigned_variable: the unassigned variables in the order of
\* self.domains, sorted by (domain size, number of neighbors); the first.
select_unassigned_variable(a) ==
    LET unassigned == SelectSeq(varOrder, LAMBDA var : var \notin Keys(a))
        mrv == [k \in 1..Len(unassigned) |->
                    [item |-> unassigned[k],
                     key |-> <<Cardinality(domains[unassigned[k]]),
                               Cardinality(neighbors(unassigned[k]))>>]]
    IN  sorted(mrv)[1].item

\* `x in assignment` for a word x: the keys of assignment are Variable
\* objects, and no str is equal to one.
WordIsKey(x, a) == FALSE

\* order_domain_values, the set self.domains[var] being enumerated in the
\* order enum.
order_domain_values_unsorted(var, a, enum) ==
    SelectSeq(enum, LAMBDA x : ~WordIsKey(x, a))

order_domain_values(var, a, enum) ==
    LET listed == SelectSeq(enum, LAMBDA x : ~WordIsKey(x, a))
        Dvalues == [k \in 1..Len(listed) |->
                        [item |-> listed[k],
                         key |-> <<Cardinality({neighbor \in neighbors(var) :
                                        listed[k] \in domains[neighbor]})>>]]
        s == sorted(Dvalues)
    IN  [k \in 1..Len(s) |-> s[k].item]

(***************************************************************************)
(* The solver as a state machine.                                          *)
(***************************************************************************)

\* __init__: every domain is a copy of the whole word list.
Init ==
    /\ variables \in Grids
    /\ words \in {W \in SUBSET Dictionary : Cardinality(W) <= MaxWords}
    /\ varOrder \in Perms(variables)
    /\ domains = [var \in variables |-> words]
    /\ pc = "idle"
    /\ queue = <<>>
    /\ calls = 0
    /\ rets = <<>>
    /\ dom0 = domains
    /\ assignment = <<>>
    /\ stack = <<>>
    /\ picked = <<>>
    /\ result = "pending"

\* solve(), line 92.
EnforceNodeConsistency ==
    /\ pc = "idle"
    /\ domains' = enforce_node_consistency(domains)
    /\ pc' = "node_done"
    /\ UNCHANGED <<variables, words, varOrder, queue, calls, rets, dom0,
                   assignment, stack, picked, result>>

\* ac3() is entered with arcs=None: by solve() (line 93), or once more by a
\* client that propagates again.
Ac3Call ==
    /\ \/ pc = "node_done"
       \/ pc = "ac3_returned" /\ calls < MaxAc3Calls
    /\ queue' = InitialArcs(varOrder)
    /\ calls' = calls + 1
    /\ dom0' = domains
    /\ pc' = "ac3"
    /\ UNCHANGED <<variables, words, varOrder, domains, rets,
                   assignment, stack, picked, result>>

\* One iteration of ac3's while loop, the arc taken being the k-th of the
\* worklist.
Ac3Step(k) ==
    /\ pc = "ac3"
    /\ k \in 1..Len(queue)
    /\ LET x == queue[k][1]
           y == queue[k][2]
           rest == SubSeq(queue, 1, k - 1) \o SubSeq(queue, k + 1, Len(queue))
           r == revise(domains, x, y)
       IN  /\ domains' = r.domains
           /\ IF r.revised
              THEN IF r.domains[x] = {}
                   THEN /\ rets' = Append(rets, "False")
                        /\ pc' = "ac3_returned"
                        /\ queue' = rest
                   ELSE /\ \E order \in Perms(Requeue(x, y)) :
                              queue' = rest
                                  \o [n \in 1..Len(order) |-> <<order[n], x>>]
                        /\ UNCHANGED <<rets, pc>>
              ELSE /\ queue' = rest
                   /\ UNCHANGED <<rets, pc>>
    /\ UNCHANGED <<variables, words, varOrder, calls, dom0,
                   assignment, stack, picked, result>>

\* ac3, lines 163-172: queue.pop(0) takes the first arc.
Ac3Revise == Ac3Step(1)

\* The same loop under another worklist policy: any arc is taken.
Ac3ReviseAnyOrder == \E k \in 1..Len(queue) : Ac3Step(k)

\* The worklist is empty: ac3 returns True.
Ac3Done ==
    /\ pc = "ac3"
    /\ queue = <<>>
    /\ rets' = Append(rets, "True")
    /\ pc' = "ac3_returned"
    /\ UNCHANGED <<variables, words, varOrder, domains, queue, calls, dom0,
                   assignment, stack, picked, result>>

\* A call frame of backtrack: the assignment at entry, the selected variable
\* (none yet: <<>>) and the values the for loop has still to try.
NewFrame(a) == [entry |-> a, var |-> <<>>, vals |-> <<>>]

Top == stack[Len(stack)]

SetTop(frame) == [stack EXCEPT ![Len(stack)] = frame]

\* solve(), line 94: backtrack(dict()), whatever ac3 returned.
SolveBacktrack ==
    /\ pc = "ac3_returned"
    /\ calls = 1
    /\ assignment' = <<>>
    /\ stack' = <<NewFrame(<<>>)>>
    /\ pc' = "bt_enter"
    /\ UNCHANGED <<variables, words, varOrder, domains, queue, calls, rets, dom0,
                   picked, result>>

\* backtrack, lines 271-272.
BtComplete ==
    /\ pc = "bt_enter"
    /\ assignment_complete(assignment)
    /\ result' = "assignment"
    /\ pc' = "bt_ret"
    /\ UNCHANGED <<variables, words, varOrder, domains, queue, calls, rets, dom0,
                   assignment, stack, picked>>

\* backtrack, lines 273-274.
BtSelect ==
    /\ pc = "bt_enter"
    /\ ~assignment_complete(assignment)
    /\ LET var == select_unassigned_variable(assignment)
       IN  \E enum \in Perms(domains[var]) :
             LET vals == order_domain_values(var, assignment, enum)
             IN  /\ stack' = SetTop([Top EXCEPT !.var = <<var>>, !.vals = vals])
                 /\ picked' = <<[var |-> var, enum |-> enum, vals |-> vals,
                                 at |-> assignment]>>
    /\ pc' = "bt_loop"
    /\ UNCHANGED <<variables, words, varOrder, domains, queue, calls, rets, dom0,
                   assignment, result>>

\* self.domains after the trial `assignment[var] = val` of line 275: the
\* trial writes the dict `assignment` alone.
StoreAfterTrial_narrowed(doms, var, val) == [doms EXCEPT ![var] = {val}]

StoreAfterTrial(doms, var, val) == doms

\* backtrack, line 275: the next value is tried.
BtAssign ==
    /\ pc = "bt_loop"
    /\ Top.vals # <<>>
    /\ assignment' = Append(assignment, <<Top.var[1], Head(Top.vals)>>)
    /\ domains' = StoreAfterTrial(domains, Top.var[1], Head(Top.vals))
    /\ stack' = SetTop([Top EXCEPT !.vals = Tail(Top.vals)])
    /\ pc' = "bt_check"
    /\ UNCHANGED <<variables, words, varOrder, queue, calls, rets, dom0,
                   picked, result>>

\* backtrack, lines 276-277 and 280: recurse, or undo at once.
BtCheck ==
    /\ pc = "bt_check"
    /\ IF consistent(assignment)
       THEN /\ stack' = Append(stack, NewFrame(assignment))
            /\ pc' = "bt_enter"
            /\ UNCHANGED assignment
       ELSE /\ assignment' = Pop(assignment, Top.var[1])
            /\ pc' = "bt_loop"
            /\ UNCHANGED stack
    /\ UNCHANGED <<variables, words, varOrder, domains, queue, calls, rets, dom0,
                   picked, result>>

\* backtrack, line 282: the for loop has no value left.
BtExhausted ==
    /\ pc = "bt_loop"
    /\ Top.vals = <<>>
    /\ result' = "None"
    /\ pc' = "bt_ret"
    /\ UNCHANGED <<variables, words, varOrder, domains, queue, calls, rets, dom0,
                   assignment, stack, picked>>

\* The innermost call returns `result`: to solve(), or to the caller's lines
\* 278-280 (a non-empty dict is true, None is false).
BtReturn ==
    /\ pc = "bt_ret"
    /\ stack' = SubSeq(stack, 1, Len(stack) - 1)
    /\ IF Len(stack) = 1
       THEN /\ pc' = "done"
            /\ UNCHANGED <<assignment, result>>
       ELSE IF result = "assignment" /\ assignment # <<>>
       THEN /\ pc' = "bt_ret"
            /\ UNCHANGED <<assignment, result>>
       ELSE /\ assignment' = Pop(assignment, stack[Len(stack) - 1].var[1])
            /\ result' = "pending"
            /\ pc' = "bt_loop"
    /\ UNCHANGED <<variables, words, varOrder, domains, queue, calls, rets, dom0,
                   picked>>

Next ==
    \/ EnforceNodeConsistency
    \/ Ac3Call
    \/ Ac3Revise
    \/ Ac3Done
    \/ SolveBacktrack
    \/ BtComplete
    \/ BtSelect
    \/ BtAssign
    \/ BtCheck
    \/ BtExhausted
    \/ BtReturn

Spec == Init /\ [][Next]_vars

\* ac3 is a sequential while loop: an iteration that can run does run, and
\* the return that follows the loop is executed once the loop has ended.
FairSpec == Spec /\ WF_vars(Ac3Revise) /\ WF_vars(Ac3Done)

\* Propagation alone, the worklist policy left open.
NextAnyOrder ==
    \/ EnforceNodeConsistency
    \/ Ac3Call
    \/ Ac3ReviseAnyOrder
    \/ Ac3Done

SpecAnyOrder == Init /\ [][NextAnyOrder]_vars

\* The whole loop of ac3 (lines 163-173) run first-in first-out on the
\* domains doms and the worklist q: what it returns and the domains it
\* leaves.
RECURSIVE ac3(_, _)
ac3(doms, q) ==
    IF q = <<>>
    THEN [ret |-> "True", domains |-> doms]
    ELSE LET x == Head(q)[1]
             y == Head(q)[2]
             r == revise(doms, x, y)
             order == CHOOSE order \in Perms(Requeue(x, y)) : TRUE
         IN  IF r.revised
             THEN IF r.domains[x] = {}
                  THEN [ret |-> "False", domains |-> r.domains]
                  ELSE ac3(r.domains,
                           Tail(q) \o [n \in 1..Len(order) |-> <<order[n], x>>])
             ELSE ac3(doms, Tail(q))

TypeOK ==
    /\ pc \in {"idle", "node_done", "ac3", "ac3_returned", "bt_enter", "bt_loop",
               "bt_check", "bt_ret", "done", "consistent_call", "consistent_returned"}
    /\ result \in {"pending", "None", "assignment", "True", "False", "IndexError"}
    /\ \A var \in variables : domains[var] \subseteq words
    /\ pc = "bt_check" => consistent_outcomes(assignment) \in {{"True"}, {"False"}}

\* consistent() called on its own, on any partial or complete assignment of
\* dictionary words to the variables of a puzzle.
Assignments(V) ==
    UNION {{[k \in 1..Len(order) |-> <<order[k], w[k]>>] :
                w \in [1..Len(order) -> Dictionary]} :
            order \in UNION {Perms(S) : S \in SUBSET V}}

InitConsistent ==
    /\ variables \in Grids
    /\ words = Dictionary
    /\ varOrder = CHOOSE order \in Perms(variables) : TRUE
    /\ domains = [var \in variables |-> words]
    /\ pc = "consistent_call"
    /\ queue = <<>>
    /\ calls = 0
    /\ rets = <<>>
    /\ dom0 = domains
    /\ assignment \in Assignments(variables)
    /\ stack = <<>>
    /\ picked = <<>>
    /\ result = "pending"

\* consistent(assignment) runs; result is what it returned, or "IndexError".
ConsistentCall ==
    /\ pc = "consistent_call"
    /\ \E outcome \in consistent_outcomes(assignment) : result' = outcome
    /\ pc' = "consistent_returned"
    /\ UNCHANGED <<variables, words, varOrder, domains, queue, calls, rets, dom0,
                   assignment, stack, picked>>

NextConsistent == ConsistentCall

SpecConsistent == InitConsistent /\ [][NextConsistent]_vars

(***************************************************************************)
(* Properties of solve().                                                  *)
(***************************************************************************)

\* The words of the word list that fit a slot.
Fitting(var) == {word \in words : Len(word) = var.length}

\* f assigns every variable a word of its length, agrees at every overlap
\* and uses no word twice.
IsSolution(f) ==
    /\ \A var \in variables : Len(f[var]) = var.length
    /\ \A x, y \in variables :
          x # y /\ overlaps(x, y) # None
              => At(f[x], overlaps(x, y)[1]) = At(f[y], overlaps(x, y)[2])
    /\ \A x, y \in variables : x # y => f[x] # f[y]

\* The solutions over the original domains (the whole word list per slot).
Solutions == {f \in [variables -> words] : IsSolution(f)}

\* The dict returned, as a function; defined when its keys are distinct.
AsFunction(a) == [var \in Keys(a) |-> Value(a, var)]

LastRet == rets[Len(rets)]

Searching == pc \in {"bt_enter", "bt_loop", "bt_check", "bt_ret"}

\* C1 (soundness): an assignment returned by solve() gives every slot
\* variable exactly one word, of the slot's length, agreeing at every
\* overlap, and no two slots hold the same word.
SolveSound ==
    (pc = "done" /\ result = "assignment")
        => /\ Keys(assignment) = variables
           /\ Len(assignment) = Cardinality(variables)
           /\ IsSolution(AsFunction(assignment))

\* solve() returned an assignment for the three-slot puzzle.
SolveSoundWitness ==
    /\ pc = "done"
    /\ result = "assignment"
    /\ Cardinality(variables) = 3

\* C2 (completeness): when the original domains admit a solution, solve()
\* returns an assignment; and no word that has left a slot's domain is that
\* slot's word in a solution (a word of another length is in none).
SolveComplete ==
    /\ (pc = "done" /\ result # "assignment") => Solutions = {}
    /\ \A var \in variables : \A word \in Fitting(var) \ domains[var] :
          \A f \in Solutions : f[var] # word

\* solve() found an assignment after propagation had removed a fitting word.
SolveCompleteWitness ==
    /\ pc = "done"
    /\ result = "assignment"
    /\ \E var \in variables : domains[var] # Fitting(var)
    /\ Cardinality(variables) >= 2

\* C3 (failure correctness): once ac3 has reported failure inside solve(),
\* the backtracking search is not invoked.
NoSearchAfterFailedPropagation ==
    ~(calls = 1 /\ rets = <<"False">> /\ Searching)

\* C4: when ac3 returned False inside solve(), solve() returns None.
FailedPropagationGivesNone ==
    (pc = "done" /\ rets = <<"False">>) => result = "None"

\* solve() has returned None after ac3 emptied a domain.
FailedPropagationWitness ==
    /\ pc = "done"
    /\ rets = <<"False">>
    /\ result = "None"
    /\ \E var \in variables : domains[var] = {} /\ Fitting(var) # {}

\* C5: select_unassigned_variable returns an unassigned variable of minimum
\* domain size and, among the unassigned variables of that domain size, one
\* with the most neighbors.
SelectsMrvThenHighestDegree ==
    picked # <<>> =>
        LET var == picked[1].var
            unassigned == variables \ Keys(picked[1].at)
        IN  /\ var \in unassigned
            /\ \A u \in unassigned :
                  /\ Cardinality(domains[u]) >= Cardinality(domains[var])
                  /\ Cardinality(domains[u]) = Cardinality(domains[var])
                        => Cardinality(neighbors(u)) <= Cardinality(neighbors(var))

\* C6: ac3 returns True exactly when no domain is empty on return.
Ac3TrueIffNoEmptyDomain ==
    pc = "ac3_returned" =>
        (LastRet = "True" <=> \A var \in variables : domains[var] # {})

\* Every word of domain(x) has a word of domain(y) agreeing at the overlap,
\* for every ordered pair with an overlap.
ArcConsistent(doms) ==
    \A x, y \in variables :
        x # y /\ overlaps(x, y) # None
            => \A w \in doms[x] : \E u \in doms[y] :
                   At(w, overlaps(x, y)[1]) = At(u, overlaps(x, y)[2])

\* C7 (arc consistency postcondition): when ac3, started from the default
\* worklist, returns True, the domains are arc consistent.
Ac3TrueGivesArcConsistency ==
    (pc = "ac3_returned" /\ LastRet = "True") => ArcConsistent(domains)

\* ac3 returned True after shrinking, without emptying, the domain of a slot
\* that has a neighbor.
Ac3ArcConsistencyWitness ==
    /\ pc = "ac3_returned"
    /\ rets = <<"True">>
    /\ \E var \in variables :
          /\ neighbors(var) # {}
          /\ domains[var] # dom0[var]
          /\ domains[var] # {}

\* The number of neighbors of var whose current domain contains word.
Seen(var, word) ==
    Cardinality({neighbor \in neighbors(var) : word \in domains[neighbor]})

\* Position of word w in the sequence s.
Place(s, w) == CHOOSE k \in 1..Len(s) : s[k] = w

NodeConsistency ==
    /\ pc = "node_done" => \A var \in variables : domains[var] = Fitting(var)
    /\ pc # "idle" =>
          \A var \in variables : \A word \in domains[var] : Len(word) = var.length

\* Node consistency has removed a word from a domain and kept another.
NodeConsistencyWitness ==
    /\ pc = "node_done"
    /\ \E var \in variables : domains[var] # words /\ domains[var] # {}

\* C10 (idempotence): when ac3 has returned True, a further ac3 removes no
\* word from any domain and returns True.
Ac3Idempotent ==
    (calls >= 2 /\ rets[calls - 1] = "True")
        => /\ domains = dom0
           /\ Len(rets) = calls => LastRet = "True"

\* A second ac3 has returned, the first having shrunk a domain and returned
\* True.
Ac3IdempotentWitness ==
    /\ calls = 2
    /\ pc = "ac3_returned"
    /\ rets = <<"True", "True">>
    /\ \E var \in variables : domains[var] # Fitting(var) /\ domains[var] # {}

\* C11: the search never changes the Domain Store and never propagates:
\* every step that starts or ends inside backtrack leaves self.domains as
\* the initial propagation left it, starts no ac3 and revises no arc.
SearchLeavesDomainStore ==
    [][(Searching \/ Searching')
          => /\ domains' = domains
             /\ calls' = calls
             /\ rets' = rets
             /\ queue' = queue]_vars

\* The outermost call is back in its loop after a trial value was undone.
SearchUndoWitness ==
    /\ pc = "bt_loop"
    /\ Len(stack) = 1
    /\ assignment = <<>>
    /\ Len(Top.vals) < Cardinality(domains[Top.var[1]])

\* (a), (b), (c) of a consistent assignment: every word has its variable's
\* length, assigned variables that overlap agree at the overlap, and the
\* words are pairwise distinct.
IsConsistent(a) ==
    /\ \A k \in 1..Len(a) : Len(a[k][2]) = a[k][1].length
    /\ \A k, l \in 1..Len(a) :
          k # l /\ overlaps(a[k][1], a[l][1]) # None
              => At(a[k][2], overlaps(a[k][1], a[l][1])[1])
                    = At(a[l][2], overlaps(a[k][1], a[l][1])[2])
    /\ \A k, l \in 1..Len(a) : k # l => a[k][2] # a[l][2]

\* C12: consistent(assignment) returns True exactly when (a), (b) and (c)
\* hold, and returns False otherwise, for every partial or complete
\* assignment.
ConsistentDecides ==
    pc = "consistent_returned" =>
        /\ IsConsistent(assignment) => result = "True"
        /\ ~IsConsistent(assignment) => result = "False"

\* C13 (confluence): whatever arc each step takes from the worklist, ac3
\* returns what the first-in first-out run from the same domains returns,
\* and on success leaves the same domains.
Ac3Confluent ==
    pc = "ac3_returned" =>
        LET fifo == ac3(dom0, InitialArcs(varOrder))
        IN  /\ LastRet = fifo.ret
            /\ fifo.ret = "True" => domains = fifo.domains

\* ac3 returned True having shrunk the domains of two slots.
Ac3ConfluentWitness ==
    /\ pc = "ac3_returned"
    /\ rets = <<"True">>
    /\ Cardinality({var \in variables : domains[var] # dom0[var]}) >= 2

\* The dict a as the set of its items.
Items(a) == Range(a)

\* C14 (explicit undo): a call of backtrack that returns None leaves in
\* assignment exactly the pairs it held when the call was entered; and at
\* every entry to backtrack the assignment is consistent and, for a
\* recursive call, is the caller's entry assignment plus one variable.
BacktrackUndoes ==
    /\ (pc = "bt_ret" /\ result = "None") => Items(assignment) = Items(Top.entry)
    /\ pc = "bt_enter" =>
          /\ consistent_outcomes(assignment) = {"True"}
          /\ Len(stack) >= 2 =>
                /\ Items(stack[Len(stack) - 1].entry) \subseteq Items(assignment)
                /\ Cardinality(Keys(assignment))
                      = Cardinality(Keys(stack[Len(stack) - 1].entry)) + 1
                /\ Len(assignment) = Cardinality(Keys(assignment))

\* A recursive call returns None after it tried, and undid, a value.
BacktrackUndoesWitness ==
    /\ pc = "bt_ret"
    /\ result = "None"
    /\ Len(stack) >= 2
    /\ Top.var # <<>>
    /\ domains[Top.var[1]] # {}

\* The words of doms[x] with no word of doms[y] agreeing at the overlap.
Unsupported(doms, x, y) ==
    {w \in doms[x] :
        \A u \in doms[y] : At(w, overlaps(x, y)[1]) # At(u, overlaps(x, y)[2])}

\* C15: every revise(x, y) that ac3 runs, on a pair without overlap, changes
\* no domain and returns False; otherwise it removes from domain(x) exactly
\* the unsupported words, changes no other domain, and returns True exactly
\* when it removed a word.
ReviseRemovesUnsupported ==
    [][(pc = "ac3" /\ queue # <<>>) =>
          LET x == Head(queue)[1]
              y == Head(queue)[2]
              revised == revise(domains, x, y).revised
          IN  /\ overlaps(x, y) = None => (domains' = domains /\ ~revised)
              /\ overlaps(x, y) # None =>
                    /\ domains'[x] = domains[x] \ Unsupported(domains, x, y)
                    /\ \A var \in variables \ {x} : domains'[var] = domains[var]
                    /\ revised <=> domains'[x] # domains[x]]_vars

\* ac3 has removed words from a domain without emptying it and is about to
\* revise a pair that has no overlap.
ReviseWitness ==
    /\ pc = "ac3"
    /\ queue # <<>>
    /\ overlaps(Head(queue)[1], Head(queue)[2]) = None
    /\ \E var \in variables : domains[var] # dom0[var] /\ domains[var] # {}

\* The arc (z, x) is in the worklist q.
InQueue(q, z, x) == \E n \in 1..Len(q) : q[n] = <<z, x>>

\* C16 (worklist step): when ac3 takes (x, y) from the worklist and the
\* revision removes a word and leaves domain(x) non-empty, (z, x) is in the
\* worklist right after, for every neighbor z of x other than y; when it
\* removes nothing, nothing is enqueued; when it empties domain(x), ac3
\* returns False at once, and no arc is processed after a return.
Ac3WorklistStep ==
    [][/\ (pc = "ac3" /\ queue # <<>>) =>
              LET x == Head(queue)[1]
                  y == Head(queue)[2]
              IN  /\ (domains'[x] # domains[x] /\ domains'[x] # {}) =>
                        /\ pc' = "ac3"
                        /\ \A z \in neighbors(x) \ {y} : InQueue(queue', z, x)
                  /\ domains'[x] = domains[x] =>
                        /\ pc' = "ac3"
                        /\ queue' = Tail(queue)
                  /\ (domains'[x] # domains[x] /\ domains'[x] = {}) =>
                        /\ pc' = "ac3_returned"
                        /\ rets' = Append(rets, "False")
       /\ (pc = "ac3_returned" /\ calls' = calls) => domains' = domains]_vars

\* The worklist holds an arc twice: the initial arcs being distinct, one of
\* the two was re-enqueued by a revision that shrank a domain without
\* emptying it.
Ac3WorklistWitness ==
    /\ pc = "ac3"
    /\ \E m, n \in 1..Len(queue) : m < n /\ queue[m] = queue[n]
    /\ \A var \in variables : domains[var] # {}

\* C17 (termination): every ac3 that is running eventually returns; while
\* it runs no domain grows, and the worklist is not shortened by a step
\* only if that step strictly shrank a domain.
Ac3Terminates ==
    /\ (pc = "ac3") ~> (pc = "ac3_returned")
    /\ [][(pc = "ac3" /\ queue # <<>>) =>
              /\ \A var \in variables : domains'[var] \subseteq domains[var]
              /\ Len(queue') >= Len(queue) => domains' # domains]_vars

\* ac3 has returned, with an empty worklist, after it shrank a domain of the
\* three-slot puzzle without emptying it.
Ac3TerminatesWitness ==
    /\ pc = "ac3_returned"
    /\ Len(rets) = 1
    /\ queue = <<>>
    /\ Cardinality(variables) = 3
    /\ \E var \in variables : domains[var] # dom0[var] /\ domains[var] # {}

====
